---- MODULE Spec2Model ----
(***************************************************************************)
(* Model of src/adaptive_wavelets/losses.py: the composite loss of the     *)
(* adaptive wavelet transform (class Loss and its term functions).         *)
(*                                                                         *)
(* Scalars are exact numbers (a + b*sqrt(2))/d, so that np.sqrt(2), the    *)
(* factor .5 and the divisions by batch size, tensor count and filter      *)
(* length are computed exactly.  Tensors are a shape and the row-major     *)
(* sequence of their (integer) elements.                                   *)
(***************************************************************************)
EXTENDS Integers, Sequences, FiniteSets, TLC

(* ------------------------------ bounds -------------------------------- *)
\* batch size B of `data` in every modelled call
Batch == 2
\* the leading dimension of a tensor is 1, Batch or MaxB (Batch < MaxB)
MaxB == 3
\* lowpass filters have length MaxN - 1 or MaxN
MaxN == 4
\* a weight is 0 (term off) or LamOn (term on)
LamOn == 2

(* ----------------------------- scalars -------------------------------- *)
AbsInt(x) == IF x < 0 THEN -x ELSE x

RECURSIVE Gcd(_, _)
Gcd(x, y) == IF y = 0 THEN x ELSE Gcd(y, x % y)

\* the number (a + b*sqrt2)/d in lowest terms, d > 0
Norm(a, b, d) ==
    LET g == Gcd(Gcd(AbsInt(a), AbsInt(b)), d)
    IN  [a |-> a \div g, b |-> b \div g, d |-> d \div g]

Num(i) == [a |-> i, b |-> 0, d |-> 1]
Zero == Num(0)
Sqrt2 == [a |-> 0, b |-> 1, d |-> 1]
Half == [a |-> 1, b |-> 0, d |-> 2]
Add(x, y) == Norm(x.a * y.d + y.a * x.d, x.b * y.d + y.b * x.d, x.d * y.d)
Sub(x, y) == Norm(x.a * y.d - y.a * x.d, x.b * y.d - y.b * x.d, x.d * y.d)
Mul(x, y) == Norm(x.a * y.a + 2 * x.b * y.b, x.a * y.b + x.b * y.a, x.d * y.d)
Sq(x) == Mul(x, x)
\* x / n for a positive integer n
Div(x, n) == Norm(x.a, x.b, x.d * n)

\* an attribute that was never assigned (reading it raises AttributeError)
Unset == [a |-> 0, b |-> 0, d |-> 0]

(* ----------------------------- tensors -------------------------------- *)
RECURSIVE Prod(_)
Prod(s) == IF s = <<>> THEN 1 ELSE Head(s) * Prod(Tail(s))

RECURSIVE SumSeq(_)
SumSeq(s) == IF s = <<>> THEN 0 ELSE Head(s) + SumSeq(Tail(s))

Tensor(shape, vals) == [shape |-> shape, vals |-> vals]
\* t.size(i), i counted from 0
Size(t, i) == t.shape[i + 1]
\* t.sum()
TSum(t) == SumSeq(t.vals)
\* (t**2).sum()
TSumSq(t) == SumSeq([j \in 1..Len(t.vals) |-> t.vals[j] * t.vals[j]])
\* torch.sum(abs(t))
TSumAbs(t) == SumSeq([j \in 1..Len(t.vals) |-> AbsInt(t.vals[j])])

\* the index along each dimension of the flat (row-major, 0-based) offset j
Unravel(j, shape) ==
    [k \in 1..Len(shape) |->
        (j \div Prod(SubSeq(shape, k + 1, Len(shape)))) % shape[k]]
\* the flat 0-based offset of a multi-index
Ravel(idx, shape) ==
    SumSeq([k \in 1..Len(shape) |->
        idx[k] * Prod(SubSeq(shape, k + 1, Len(shape)))])

\* torch.broadcast_tensors on two shapes of the same rank
Broadcastable(s1, s2) ==
    /\ Len(s1) = Len(s2)
    /\ \A k \in 1..Len(s1) : s1[k] = s2[k] \/ s1[k] = 1 \/ s2[k] = 1
BroadcastShape(s1, s2) ==
    [k \in 1..Len(s1) |-> IF s1[k] = 1 THEN s2[k] ELSE s1[k]]
\* element of t, expanded to shape `to`, at flat offset j of the expanded tensor
Expanded(t, to, j) ==
    LET idx == Unravel(j, to)
        src == [k \in 1..Len(to) |-> IF t.shape[k] = 1 THEN 0 ELSE idx[k]]
    IN  t.vals[Ravel(src, t.shape) + 1]

\* F.mse_loss(input, target, reduction="sum"): broadcasts mismatched shapes
\* (with a warning) when they are broadcastable, raises RuntimeError otherwise
MseFails(input, target) == ~Broadcastable(input.shape, target.shape)
MseSum(input, target) ==
    LET to == BroadcastShape(input.shape, target.shape)
    IN  SumSeq([j \in 1..Prod(to) |->
            (Expanded(input, to, j - 1) - Expanded(target, to, j - 1))
          * (Expanded(input, to, j - 1) - Expanded(target, to, j - 1))])

(* ---------------------------- a call's inputs ------------------------- *)
\* the arguments of Loss.__call__(w_transform, data, recon_data, data_t,
\* attributions)
Args(w_transform, data, recon_data, data_t, attributions) ==
    [w_transform |-> w_transform, data |-> data, recon_data |-> recon_data,
     data_t |-> data_t, attributions |-> attributions]

\* a tensor of the given shape with elements -1, 0, 1 in a pattern set by seed
Ramp(shape, seed) ==
    Tensor(shape, [j \in 1..Prod(shape) |-> ((j + seed) % 3) - 1])

Lams == {0, LamOn}
LeadDims == {1, Batch, MaxB}
DataSet == {Ramp(<<Batch, 1, 1, 2>>, 0)}
ReconSet == {Ramp(<<b, 1, 1, 2>>, 1) : b \in LeadDims}
\* transform objects: a lowpass filter h0 of two slices of length n
FilterSet == {[h0 |-> Ramp(<<2, 1, n>>, 0)] : n \in {MaxN - 1, MaxN}}
\* coefficient tensors: two with leading dimension Batch, one with leading dimension 1
CoefA == Ramp(<<Batch, 1, 2>>, 0)
CoefB == Ramp(<<Batch, 2, 1>>, 1)
CoefC == Ramp(<<1, 1, 2>>, 2)
CoefSeqs == {<<>>, <<CoefA, CoefB>>, <<CoefB, CoefA>>,
             <<CoefA, CoefC>>, <<CoefC, CoefA>>}
\* attributions of the coefficients: one tensor per coefficient tensor, of the
\* same shape
AttrOf(data_t) == [i \in 1..Len(data_t) |-> Ramp(data_t[i].shape, i)]
\* Python's None / a given value, for the optional argument `attributions`
None == [given |-> FALSE, seq |-> <<>>]
Some(s) == [given |-> TRUE, seq |-> s]
AttrSet == {None} \cup {Some(AttrOf(c)) : c \in CoefSeqs}

(* --------------------------- term functions --------------------------- *)
\* a call that returned v / a call that raised exception e
Ok(v) == [err |-> "none", val |-> v]
Raise(e) == [err |-> e, val |-> Unset]

\* _reconstruction_loss(data, recon_data)
_reconstruction_loss(data, recon_data) ==
    LET batch_size == Size(recon_data, 0)
    IN  IF MseFails(recon_data, data)
        THEN Raise("RuntimeError")
        ELSE Ok(Div(Num(MseSum(recon_data, data)), batch_size))

\* _sum_loss(w_transform)
_sum_loss(w_transform) ==
    LET h0 == w_transform.h0
    IN  Ok(Mul(Half, Sq(Sub(Num(TSum(h0)), Sqrt2))))

\* _L2norm_loss(w_transform)
_L2norm_loss(w_transform) ==
    LET h0 == w_transform.h0
    IN  Ok(Mul(Half, Sq(Sub(Num(TSumSq(h0)), Num(1)))))

\* exp(-2*pi*i*p/n) as <<re, im>>, for the lengths n that divide 4 (every even
\* n below 6)
Twiddle(n, p) ==
    LET q == (p * (4 \div n)) % 4
    IN  CASE q = 0 -> <<1, 0>>
          [] q = 1 -> <<0, -1>>
          [] q = 2 -> <<-1, 0>>
          [] q = 3 -> <<0, 1>>

\* torch.fft(torch.stack((h0, zeros_like(h0)), dim=3), 1): the DFT of every
\* slice h0[i,j,:], as <<re, im>> at each flat offset of h0
Fft(h0) ==
    LET n == h0.shape[3]
    IN  [o \in 1..Len(h0.vals) |->
            LET idx == Unravel(o - 1, h0.shape)
                x(m) == h0.vals[Ravel(<<idx[1], idx[2], m>>, h0.shape) + 1]
            IN  << SumSeq([m \in 1..n |-> x(m - 1) * Twiddle(n, (m - 1) * idx[3])[1]]),
                   SumSeq([m \in 1..n |-> x(m - 1) * Twiddle(n, (m - 1) * idx[3])[2]]) >>]

\* mod = (h_f**2).sum(axis=3), then the element mod[i, j, k]
Mod(h0, i, j, k) ==
    LET h_f == Fft(h0)
        c == h_f[Ravel(<<i, j, k>>, h0.shape) + 1]
    IN  c[1] * c[1] + c[2] * c[2]

\* _CMF_loss as it would be without line 155 (the assert on n)
_CMF_loss_noAssert(w_transform) ==
    LET h0 == w_transform.h0
        n == Size(h0, 2)
        cmf_identity == [k \in 1..(n \div 2) |->
            Mod(h0, 0, 0, k - 1) + Mod(h0, 0, 0, (n \div 2) + k - 1)]
    IN  Ok(Div(Num(SumSeq([k \in 1..(n \div 2) |->
                    (cmf_identity[k] - 2) * (cmf_identity[k] - 2)])), n))

\* _CMF_loss as it would be with line 158 reading mod[-1,0,...]: the last
\* slice of h0 instead of the first
_CMF_loss_lastSlice(w_transform) ==
    LET h0 == w_transform.h0
        n == Size(h0, 2)
        i == Size(h0, 0) - 1
        cmf_identity == [k \in 1..(n \div 2) |->
            Mod(h0, i, 0, k - 1) + Mod(h0, i, 0, (n \div 2) + k - 1)]
    IN  IF n % 2 # 0
        THEN Raise("AssertionError")
        ELSE Ok(Div(Num(SumSeq([k \in 1..(n \div 2) |->
                    (cmf_identity[k] - 2) * (cmf_identity[k] - 2)])), n))

\* _CMF_loss(w_transform)
_CMF_loss(w_transform) ==
    LET h0 == w_transform.h0
        n == Size(h0, 2)
        cmf_identity == [k \in 1..(n \div 2) |->
            Mod(h0, 0, 0, k - 1) + Mod(h0, 0, 0, (n \div 2) + k - 1)]
    IN  IF n % 2 # 0
        THEN Raise("AssertionError")
        ELSE Ok(Div(Num(SumSeq([k \in 1..(n \div 2) |->
                    (cmf_identity[k] - 2) * (cmf_identity[k] - 2)])), n))

\* tuple_L1Loss(x), for a non-empty x
tuple_L1Loss(x) ==
    LET num == Len(x)
        output == SumSeq([i \in 1..num |-> TSumAbs(x[i])])
    IN  Div(Num(output), num)

\* _L1_wave_loss(coeffs): coeffs[0] raises IndexError on an empty sequence
_L1_wave_loss(coeffs) ==
    IF Len(coeffs) = 0
    THEN Raise("IndexError")
    ELSE LET batch_size == Size(coeffs[1], 0)
         IN  Ok(Div(tuple_L1Loss(coeffs), batch_size))

\* _L1_attribution_loss(attributions): None[0] raises TypeError
_L1_attribution_loss(attributions) ==
    IF ~attributions.given
    THEN Raise("TypeError")
    ELSE IF Len(attributions.seq) = 0
    THEN Raise("IndexError")
    ELSE LET batch_size == Size(attributions.seq[1], 0)
         IN  Ok(Div(tuple_L1Loss(attributions.seq), batch_size))

\* each term function evaluated once per input of the model
RecOf == [d \in DataSet, r \in ReconSet |-> _reconstruction_loss(d, r)]
SumOf == [w \in FilterSet |-> _sum_loss(w)]
L2normOf == [w \in FilterSet |-> _L2norm_loss(w)]
CMFOf == [w \in FilterSet |-> _CMF_loss(w)]
L1waveOf == [c \in CoefSeqs |-> _L1_wave_loss(c)]
L1attrOf == [x \in AttrSet |-> _L1_attribution_loss(x)]

(* ------------------------------ class Loss ---------------------------- *)
VARIABLES self, args, out
vars == <<self, args, out>>

LossFields == {"rec_loss", "sum_loss", "L2norm_loss", "CMF_loss",
               "L1wave_loss", "L1attr_loss"}

\* Loss.__init__: stores the five weights; no loss attribute exists yet
Loss(lamSum, lamL2norm, lamCMF, lamL1wave, lamL1attr) ==
    [lamSum |-> lamSum, lamL2norm |-> lamL2norm, lamCMF |-> lamCMF,
     lamL1wave |-> lamL1wave, lamL1attr |-> lamL1attr,
     rec_loss |-> Unset, sum_loss |-> Unset, L2norm_loss |-> Unset,
     CMF_loss |-> Unset, L1wave_loss |-> Unset, L1attr_loss |-> Unset]

\* the running state of one __call__: the object, and the exception raised so far
Running(obj) == [err |-> "none", obj |-> obj]

\* line 68: self.rec_loss = _reconstruction_loss(data, recon_data)
RecBlock(st, r) ==
    IF r.err # "none"
    THEN [st EXCEPT !.err = r.err]
    ELSE [st EXCEPT !.obj.rec_loss = r.val]

\* the term block as it would be without the test `if self.lam > 0`
TermBlock_always(st, f, lam, r) ==
    IF st.err # "none"
    THEN st
    ELSE LET z == [st EXCEPT !.obj[f] = Zero]
         IN  IF r.err # "none"
             THEN [z EXCEPT !.err = r.err]
             ELSE [z EXCEPT !.obj[f] = Add(z.obj[f], r.val)]

\* the term block as it would be with `self.f = 0` done once, on the first
\* call, instead of on every call
TermBlock_accumulate(st, f, lam, r) ==
    IF st.err # "none"
    THEN st
    ELSE LET z == IF st.obj[f] = Unset THEN [st EXCEPT !.obj[f] = Zero] ELSE st
         IN  IF lam > 0
             THEN IF r.err # "none"
                  THEN [z EXCEPT !.err = r.err]
                  ELSE [z EXCEPT !.obj[f] = Add(z.obj[f], r.val)]
             ELSE z

\* the term block as it would be with the term computed before the field is
\* written: self.f = term(...) if self.lam > 0 else 0
TermBlock_assignOnce(st, f, lam, r) ==
    IF st.err # "none"
    THEN st
    ELSE IF lam > 0
         THEN IF r.err # "none"
              THEN [st EXCEPT !.err = r.err]
              ELSE [st EXCEPT !.obj[f] = r.val]
         ELSE [st EXCEPT !.obj[f] = Zero]

\* lines 71-73, 76-78, 81-83, 86-88, 91-93:
\*     self.f = 0
\*     if self.lam > 0: self.f += term(...)
\* r is what term(...) returns or raises; it is looked at only when lam > 0
TermBlock(st, f, lam, r) ==
    IF st.err # "none"
    THEN st
    ELSE LET z == [st EXCEPT !.obj[f] = Zero]
         IN  IF lam > 0
             THEN IF r.err # "none"
                  THEN [z EXCEPT !.err = r.err]
                  ELSE [z EXCEPT !.obj[f] = Add(z.obj[f], r.val)]
             ELSE z

\* the total as it would be with the CMF term added without its weight
Total_unweightedCMF(obj) ==
    Add(Add(Add(Add(Add(obj.rec_loss,
        Mul(Num(obj.lamSum), obj.sum_loss)),
        Mul(Num(obj.lamL2norm), obj.L2norm_loss)),
        obj.CMF_loss),
        Mul(Num(obj.lamL1wave), obj.L1wave_loss)),
        Mul(Num(obj.lamL1attr), obj.L1attr_loss))

\* the total as it would be with the attribution term left out of the sum
Total_withoutL1attr(obj) ==
    Add(Add(Add(Add(obj.rec_loss,
        Mul(Num(obj.lamSum), obj.sum_loss)),
        Mul(Num(obj.lamL2norm), obj.L2norm_loss)),
        Mul(Num(obj.lamCMF), obj.CMF_loss)),
        Mul(Num(obj.lamL1wave), obj.L1wave_loss))

\* lines 96-97: the weighted total
Total(obj) ==
    Add(Add(Add(Add(Add(obj.rec_loss,
        Mul(Num(obj.lamSum), obj.sum_loss)),
        Mul(Num(obj.lamL2norm), obj.L2norm_loss)),
        Mul(Num(obj.lamCMF), obj.CMF_loss)),
        Mul(Num(obj.lamL1wave), obj.L1wave_loss)),
        Mul(Num(obj.lamL1attr), obj.L1attr_loss))

\* Loss.__call__(w_transform, data, recon_data, data_t, attributions) up to
\* the first exception
Body(obj, a) ==
    LET s1 == RecBlock(Running(obj), RecOf[a.data, a.recon_data])
        s2 == TermBlock(s1, "sum_loss", obj.lamSum, SumOf[a.w_transform])
        s3 == TermBlock(s2, "L2norm_loss", obj.lamL2norm, L2normOf[a.w_transform])
        s4 == TermBlock(s3, "CMF_loss", obj.lamCMF, CMFOf[a.w_transform])
        s5 == TermBlock(s4, "L1wave_loss", obj.lamL1wave, L1waveOf[a.data_t])
        s6 == TermBlock(s5, "L1attr_loss", obj.lamL1attr, L1attrOf[a.attributions])
    IN  s6

\* what the caller gets: the returned loss, or the exception
Result(st) == IF st.err = "none" THEN Ok(Total(st.obj)) ELSE Raise(st.err)

Call(a) ==
    LET st == Body(self, a)
    IN  /\ self' = st.obj
        /\ args' = a
        /\ out' = Result(st)

NoArgs == Args([h0 |-> Tensor(<<>>, <<>>)], Tensor(<<>>, <<>>), Tensor(<<>>, <<>>),
               <<>>, None)

\* a freshly constructed Loss (get_loss_f), not yet called
Init ==
    /\ self \in {Loss(l1, l2, l3, l4, l5) :
                    l1 \in Lams, l2 \in Lams, l3 \in Lams, l4 \in Lams, l5 \in Lams}
    /\ args = NoArgs
    /\ out = Raise("nocall")

\* loss_f(w_transform, data, recon_data, data_t, attributions)
Evaluate ==
    \E w \in FilterSet, data \in DataSet, recon_data \in ReconSet, data_t \in CoefSeqs :
        Call(Args(w, data, recon_data, data_t, Some(AttrOf(data_t))))

\* loss_f(w_transform, data, recon_data, data_t): attributions defaults to None
EvaluateNoAttr ==
    \E w \in FilterSet, data \in DataSet, recon_data \in ReconSet, data_t \in CoefSeqs :
        Call(Args(w, data, recon_data, data_t, None))

Next == Evaluate \/ EvaluateNoAttr

Spec == Init /\ [][Next]_vars

(* ============================ properties ============================== *)
Called == out.err # "nocall"
Succeeded == out.err = "none"

\* the inputs of the most recent call
H0 == args.w_transform.h0
SameShape == args.data.shape = args.recon_data.shape
\* batch size B: the leading dimension of data
B == args.data.shape[1]

\* which terms raise on the inputs of the most recent call
RecRaises == ~Broadcastable(args.recon_data.shape, args.data.shape)
CMFRaises == self.lamCMF > 0 /\ H0.shape[3] % 2 = 1
WaveRaises == self.lamL1wave > 0 /\ args.data_t = <<>>
AttrRaises ==
    self.lamL1attr > 0 /\ (~args.attributions.given \/ args.attributions.seq = <<>>)

\* the contribution of a term of weight lam to the total; r is not read when
\* lam is 0
Contribution(lam, r) == IF lam = 0 THEN Zero ELSE Mul(Num(lam), r.val)

\* sum of squared differences of two tensors of the same shape
SquaredError(x, y) ==
    SumSeq([j \in 1..Len(x.vals) |-> (x.vals[j] - y.vals[j]) * (x.vals[j] - y.vals[j])])

AllWeightsZero ==
    /\ self.lamSum = 0 /\ self.lamL2norm = 0 /\ self.lamCMF = 0
    /\ self.lamL1wave = 0 /\ self.lamL1attr = 0
AllWeightsPositive ==
    /\ self.lamSum > 0 /\ self.lamL2norm > 0 /\ self.lamCMF > 0
    /\ self.lamL1wave > 0 /\ self.lamL1attr > 0

C2_MissingInput ==
    (Called /\ ~args.attributions.given) =>
        /\ self.lamL1attr > 0 =>
              /\ ~Succeeded
              /\ ~(RecRaises \/ CMFRaises \/ WaveRaises) => out.err = "TypeError"
        /\ self.lamL1attr = 0 =>
              /\ out.err # "TypeError"
              /\ ~(RecRaises \/ CMFRaises \/ WaveRaises) =>
                     Succeeded /\ self.L1attr_loss = Zero

C2_Witness ==
    /\ out.err = "TypeError" /\ ~args.attributions.given /\ self.lamL1attr > 0
    /\ self.lamL1wave > 0 /\ self.L1wave_loss # Zero

\* C3: a call returns no loss when data and recon_data differ in shape, or
\* when a tensor of the sequence of an active L1 term has a leading dimension
\* other than B.
C3_ShapeMismatchFails ==
    (/\ Called
     /\ \/ ~SameShape
        \/ /\ self.lamL1wave > 0
           /\ \E i \in 1..Len(args.data_t) : args.data_t[i].shape[1] # B
        \/ /\ self.lamL1attr > 0
           /\ \E i \in 1..Len(args.attributions.seq) :
                  args.attributions.seq[i].shape[1] # B)
    => ~Succeeded

\* C4: with lamCMF > 0 and h0 of odd length a call returns no loss (it raises
\* AssertionError, the InvalidFilterLength failure, unless the reconstruction
\* term raised first); with lamCMF = 0 the length is never checked.
C4_InvalidFilterLength ==
    Called =>
        /\ (self.lamCMF > 0 /\ H0.shape[3] % 2 = 1) =>
              /\ ~Succeeded
              /\ ~RecRaises => out.err = "AssertionError"
        /\ self.lamCMF = 0 =>
              /\ out.err # "AssertionError"
              /\ ~(RecRaises \/ WaveRaises \/ AttrRaises) => Succeeded

C4_Witness ==
    /\ out.err = "AssertionError" /\ self.lamCMF > 0 /\ H0.shape[3] % 2 = 1
    /\ self.rec_loss # Unset

\* the value a term of weight lam records in a successful call
Recorded(lam, r) == IF lam > 0 THEN r.val ELSE Zero

\* C5: after a successful call each of the six fields holds the value of its
\* term on the inputs of that call alone, whatever the calls before it were,
\* and the field of a term of weight 0 reads 0.
C5_LastCallOnly ==
    Succeeded =>
        /\ self.rec_loss = _reconstruction_loss(args.data, args.recon_data).val
        /\ self.sum_loss = Recorded(self.lamSum, _sum_loss(args.w_transform))
        /\ self.L2norm_loss = Recorded(self.lamL2norm, _L2norm_loss(args.w_transform))
        /\ self.CMF_loss = Recorded(self.lamCMF, _CMF_loss(args.w_transform))
        /\ self.L1wave_loss = Recorded(self.lamL1wave, _L1_wave_loss(args.data_t))
        /\ self.L1attr_loss =
               Recorded(self.lamL1attr, _L1_attribution_loss(args.attributions))

C5_Witness ==
    /\ Succeeded /\ SameShape
    /\ self.lamSum > 0 /\ self.lamL2norm = 0 /\ self.lamCMF > 0
    /\ self.lamL1wave > 0 /\ self.lamL1attr = 0
    /\ self.sum_loss # Zero /\ self.CMF_loss # Zero /\ self.L1wave_loss # Zero
    /\ self.L2norm_loss = Zero /\ self.L1attr_loss = Zero

\* C6 as stated: after a successful call the record holds the returned total,
\* that is, some field of the record reads it.
C6_TotalInRecord ==
    Succeeded => \E f \in LossFields : self[f] = out.val

\* C6, amended: after a successful call the record holds the six sub-losses
\* only; the returned total is in no field of its own, and is what the six
\* fields and the five weights give: rec_loss + sum over the terms of
\* weight * field.
C6_TotalFromRecord ==
    Succeeded =>
        /\ \A f \in LossFields : self[f] # Unset
        /\ out.val =
             Add(Mul(Num(self.lamL1attr), self.L1attr_loss),
             Add(Mul(Num(self.lamL1wave), self.L1wave_loss),
             Add(Mul(Num(self.lamCMF), self.CMF_loss),
             Add(Mul(Num(self.lamL2norm), self.L2norm_loss),
             Add(Mul(Num(self.lamSum), self.sum_loss), self.rec_loss)))))

C6_Witness ==
    /\ Succeeded /\ AllWeightsPositive
    /\ \A f \in LossFields : self[f] # out.val /\ self[f] # Zero

\* s and t hold the same tensors, each as often, in any order
IsPermutation(s, t) ==
    /\ Len(s) = Len(t)
    /\ \A x \in {s[i] : i \in 1..Len(s)} \cup {t[i] : i \in 1..Len(t)} :
           Cardinality({i \in 1..Len(s) : s[i] = x})
         = Cardinality({i \in 1..Len(t) : t[i] = x})

\* C7: two successful calls whose coefficient (attribution) sequences are
\* permutations of each other record the same L1 wavelet (attribution) term.
C7_OrderInvariant ==
    [][(Succeeded /\ out'.err = "none") =>
          /\ (self.lamL1wave > 0 /\ IsPermutation(args.data_t, args'.data_t)) =>
                 self'.L1wave_loss = self.L1wave_loss
          /\ (/\ self.lamL1attr > 0
              /\ IsPermutation(args.attributions.seq, args'.attributions.seq)) =>
                 self'.L1attr_loss = self.L1attr_loss]_vars

\* sum over the tensors of x of the sum of the absolute values of their
\* elements, divided by the number of tensors and then by b
MeanL1(x, b) ==
    Div(Div(Num(SumSeq([i \in 1..Len(x) |->
            SumSeq([j \in 1..Len(x[i].vals) |-> AbsInt(x[i].vals[j])])])), Len(x)), b)

\* C8: in a successful call on data and recon_data of batch size B, an active
\* L1 term on a non-empty sequence of T tensors is the sum of all absolute
\* values divided by T and by B.
C8_L1PerSample ==
    (Succeeded /\ SameShape) =>
        /\ (self.lamL1wave > 0 /\ Len(args.data_t) > 0) =>
               self.L1wave_loss = MeanL1(args.data_t, B)
        /\ (self.lamL1attr > 0 /\ Len(args.attributions.seq) > 0) =>
               self.L1attr_loss = MeanL1(args.attributions.seq, B)

\* squared magnitude of the k-th DFT coefficient of the sequence x (k from 0)
DftSq(x, k) ==
    LET n == Len(x)
        re == SumSeq([m \in 1..n |-> x[m] * Twiddle(n, (m - 1) * k)[1]])
        im == SumSeq([m \in 1..n |-> x[m] * Twiddle(n, (m - 1) * k)[2]])
    IN  re * re + im * im

\* (1/n) * sum over k in [0, n/2) of (mod[k] + mod[k + n/2] - 2)^2
MirrorDefect(x) ==
    LET n == Len(x)
    IN  Div(Num(SumSeq([k \in 1..(n \div 2) |->
            (DftSq(x, k - 1) + DftSq(x, k - 1 + (n \div 2)) - 2)
          * (DftSq(x, k - 1) + DftSq(x, k - 1 + (n \div 2)) - 2)])), n)

\* h0[0,0,:]
FirstSlice(h0) == SubSeq(h0.vals, 1, h0.shape[3])

\* C9: in a successful call an active CMF term is the mirror defect of the
\* slice h0[0,0,:] alone, while an active sum term is .5*(s - sqrt2)^2 and an
\* active L2-norm term .5*(q - 1)^2 for the sum s and the sum of squares q of
\* all elements of h0.
C9_FilterTerms ==
    Succeeded =>
        /\ self.lamCMF > 0 => self.CMF_loss = MirrorDefect(FirstSlice(H0))
        /\ self.lamSum > 0 =>
               self.sum_loss = Mul(Half, Sq(Sub(Num(SumSeq(H0.vals)), Sqrt2)))
        /\ self.lamL2norm > 0 =>
               self.L2norm_loss =
                   Mul(Half, Sq(Sub(Num(SumSeq([j \in 1..Len(H0.vals) |->
                                            H0.vals[j] * H0.vals[j]])), Num(1))))

C9_Witness ==
    /\ Succeeded /\ self.lamCMF > 0 /\ self.lamSum > 0 /\ self.lamL2norm > 0
    /\ H0.shape[1] > 1
    /\ FirstSlice(H0) # SubSeq(H0.vals, H0.shape[3] + 1, 2 * H0.shape[3])
    /\ self.CMF_loss # Zero

\* the terms in the order of evaluation, and the exception each raises
Order == <<"rec_loss", "sum_loss", "L2norm_loss", "CMF_loss", "L1wave_loss", "L1attr_loss">>
RaisesAt(obj, a, k) ==
    CASE k = 1 -> ~Broadcastable(a.recon_data.shape, a.data.shape)
      [] k = 4 -> obj.lamCMF > 0 /\ a.w_transform.h0.shape[3] % 2 = 1
      [] k = 5 -> obj.lamL1wave > 0 /\ a.data_t = <<>>
      [] k = 6 -> obj.lamL1attr > 0 /\ (~a.attributions.given \/ a.attributions.seq = <<>>)
      [] OTHER -> FALSE
ErrorAt(a, k) ==
    CASE k = 1 -> "RuntimeError"
      [] k = 4 -> "AssertionError"
      [] k = 5 -> "IndexError"
      [] k = 6 -> IF a.attributions.given THEN "IndexError" ELSE "TypeError"
      [] OTHER -> "none"
\* the first term that raises (7 when none does)
FirstRaising(obj, a) ==
    IF \E k \in 1..6 : RaisesAt(obj, a, k)
    THEN CHOOSE k \in 1..6 :
            RaisesAt(obj, a, k) /\ \A j \in 1..(k - 1) : ~RaisesAt(obj, a, j)
    ELSE 7
\* the value the k-th term records when it is computed without raising
ValueAt(obj, a, k) ==
    CASE k = 1 -> RecOf[a.data, a.recon_data].val
      [] k = 2 -> Recorded(obj.lamSum, SumOf[a.w_transform])
      [] k = 3 -> Recorded(obj.lamL2norm, L2normOf[a.w_transform])
      [] k = 4 -> Recorded(obj.lamCMF, CMFOf[a.w_transform])
      [] k = 5 -> Recorded(obj.lamL1wave, L1waveOf[a.data_t])
      [] k = 6 -> Recorded(obj.lamL1attr, L1attrOf[a.attributions])

\* C10 as stated: a failing call surfaces the exception of the first raising
\* term; the fields of the terms before it hold this call's values, the field
\* of the raising term reads 0, the fields of the later terms are unchanged.
\* (Stated for calls on an object whose fields an earlier call has all set.)
C10_FailingFieldZero ==
    [][(out'.err # "none" /\ \A f \in LossFields : self[f] # Unset) =>
          \E i \in {FirstRaising(self', args')} :
              /\ i \in 1..6
              /\ out'.err = ErrorAt(args', i)
              /\ \A k \in 1..6 :
                    self'[Order[k]] =
                        IF k < i THEN ValueAt(self', args', k)
                        ELSE IF k = i THEN Zero
                        ELSE self[Order[k]]]_vars

\* C10, amended: a failing call surfaces the exception of the first raising
\* term; the fields of the terms before it hold this call's values, the field
\* of the raising term reads 0 unless that term is the reconstruction term,
\* whose field, like the fields of all later terms, keeps the value it had
\* before the call (so a call that fails in the reconstruction term leaves
\* the whole record unchanged).
C10_PartialUpdate ==
    [][out'.err # "none" =>
          \E i \in {FirstRaising(self', args')} :
              /\ i \in 1..6
              /\ out'.err = ErrorAt(args', i)
              /\ \A k \in 1..6 :
                    self'[Order[k]] =
                        IF k < i THEN ValueAt(self', args', k)
                        ELSE IF k = i /\ i > 1 THEN Zero
                        ELSE self[Order[k]]]_vars

C10_Witness ==
    /\ out.err = "AssertionError" /\ AllWeightsPositive
    /\ self.rec_loss = _reconstruction_loss(args.data, args.recon_data).val
    /\ self.CMF_loss = Zero
    /\ WaveRaises /\ self.L1wave_loss \notin {Zero, Unset}

====
